---- MODULE Spec2Model ----
(***************************************************************************)
(* A model of rustuna (src/src/main.rs): the distributions, the trial      *)
(* store (Storage), the trial handle (Trial), the sampler and the          *)
(* Study::optimize loop.                                                   *)
(*                                                                         *)
(* f64 values are records: F(n) is the finite float of the integer n, NaN  *)
(* and the two infinities are separate values.  A HashMap is a function    *)
(* whose DOMAIN is the set of its keys.  The random source of the Sampler  *)
(* is a nondeterministic choice among the values the draw can produce.  A  *)
(* Rust panic unwinds out of the running call: pc becomes "panicked".      *)
(*                                                                         *)
(* Specifications: Spec (the store driven directly, then optimize with an  *)
(* objective that suggests, returns or panics), SpecNormal (the same with  *)
(* an objective that always returns, and fairness), SpecTrial (handles     *)
(* built on clones of a study, every suggest_* kind), SpecObj (optimize    *)
(* with obj of main.rs), SpecBest (the store with values of every class,   *)
(* for get_best_trial), SpecRead (records read from the store and written  *)
(* to by their holder), SpecParam (one trial's parameters written by       *)
(* set_trial_param and by suggest_*, and read back), SpecFrame (the three  *)
(* writes of the store) and SpecRepr (the conversions of the               *)
(* distributions on bounded inputs).                                       *)
(***************************************************************************)
EXTENDS Integers, Sequences, FiniteSets, TLC

\* ------------------------------------------------------------------ bounds
\* Store calls made directly on the study create at most MaxTrials trials.
MaxTrials == 2
\* optimize is called with n_trials in 0..MaxN.
MaxN == 2
\* The store of the best-trial specification holds at most MaxBestTrials trials.
MaxBestTrials == 3
\* The store of the parameter-overwrite specification holds at most
\* MaxParamTrials trials.
MaxParamTrials == 1
\* The conversions are applied to choice lists of at most MaxChoices labels
\* and to integers and integer-valued floats in -MaxInt..MaxInt.
MaxChoices == 2
MaxInt == 2

\* ------------------------------------------------------------------ f64
F(n) == [cls |-> "finite", num |-> n]
NaN == [cls |-> "nan", num |-> 0]
NegInf == [cls |-> "inf", num |-> -1]
PosInf == [cls |-> "inf", num |-> 1]

\* The integers of this model are 32-bit, i64 and f64 are wider.  The whole
\* numbers from 2^53 on are written from Above53 on: Above53 + k is 2^53 + k,
\* as an i64 and as the num of a float; the numbers below Above53 are
\* themselves.  No negative number below -2^53 is written.
Above53 == 1000000

\* n as f64 (line 30).  An f64 has a 53-bit significand: the cast is exact up
\* to 2^53; from 2^53 to 2^54 the floats are the even integers, and the cast
\* rounds an odd integer to the neighbour whose significand is even.
i64_as_f64(n) ==
    IF n < Above53 THEN F(n)
    ELSE LET k == n - Above53
         IN  IF k % 2 = 0 THEN F(n)
             ELSE IF (k - 1) % 4 = 0 THEN F(n - 1) ELSE F(n + 1)

\* f64::is_finite
is_finite(v) == v.cls = "finite"

\* a.partial_cmp(&b).unwrap() (line 222): "Less", "Equal" or "Greater"; only
\* ever applied to finite values, for which partial_cmp is Some.
partial_cmp(a, b) ==
    IF a.num < b.num THEN "Less" ELSE IF a.num = b.num THEN "Equal" ELSE "Greater"

\* ------------------------------------------------------------------ HashMap
EmptyMap == <<>>

\* HashMap::insert keeping the value a key already has
HashMapInsert_KeepOld(m, k, v) == m @@ (k :> v)

\* HashMap::insert (lines 289-294): the key maps to the new value, whether it
\* was present or not
HashMapInsert(m, k, v) == (k :> v) @@ m

\* ------------------------------------------------------------------ distributions
\* enum Distributions: a variant name and the struct it wraps.
IntUni(low, high) == <<"IntUni", [low |-> low, high |-> high]>>
Uni(low, high) == <<"Uni", [low |-> low, high |-> high]>>
LogUni(low, high) == <<"LogUni", [low |-> low, high |-> high]>>
Categorical(choices) == <<"Categorical", [choices |-> choices]>>

\* IntUniformDistribution::to_internal_repr: external_repr as f64
IntUniform_to_internal_repr(dist, external_repr) == i64_as_f64(external_repr)

\* IntUniformDistribution::to_external_repr: internal_repr as i64, which
\* truncates a finite value (the finite values here are whole numbers) and
\* turns NaN into 0.  The cast of an infinity saturates at the ends of i64; no
\* infinite value is converted anywhere in this model.
IntUniform_to_external_repr(dist, internal_repr) ==
    CASE internal_repr.cls = "finite" -> internal_repr.num
      [] internal_repr.cls = "nan" -> 0

\* UniformDistribution / LogUniformDistribution::to_internal_repr: identity
Uniform_to_internal_repr(dist, external_repr) == external_repr

LogUniform_to_internal_repr(dist, external_repr) == external_repr

\* position giving the index of the last equal element
position_Last(choices, external_repr) ==
    IF \E i \in 1..Len(choices) : choices[i] = external_repr
    THEN (CHOOSE i \in 1..Len(choices) :
             /\ choices[i] = external_repr
             /\ \A j \in (i + 1)..Len(choices) : choices[j] # external_repr) - 1
    ELSE -1

\* choices.iter().position(|choice| *choice == external_repr): 0-based index of
\* the first equal element, or None (-1 here)
position(choices, external_repr) ==
    IF \E i \in 1..Len(choices) : choices[i] = external_repr
    THEN (CHOOSE i \in 1..Len(choices) :
             /\ choices[i] = external_repr
             /\ \A j \in 1..(i - 1) : choices[j] # external_repr) - 1
    ELSE -1

\* CategoricalDistribution::to_internal_repr: position(..).unwrap_or(0) as f64
Categorical_to_internal_repr(dist, external_repr) ==
    LET p == position(dist[2].choices, external_repr)
    IN  F(IF p < 0 THEN 0 ELSE p)

\* UniformDistribution / LogUniformDistribution::to_external_repr: identity
Uniform_to_external_repr(dist, internal_repr) == internal_repr

LogUniform_to_external_repr(dist, internal_repr) == internal_repr

\* CategoricalDistribution::to_external_repr: self.choices[internal_repr as
\* usize].clone().  The cast saturates: NaN, -inf and negative values give 0,
\* +inf gives usize::MAX, which is past the end of any Vec.  Indexing past the
\* end panics.  The result is [panic, value].
Categorical_to_external_repr(dist, internal_repr) ==
    LET choices == dist[2].choices
        past_any_end == internal_repr.cls = "inf" /\ internal_repr.num > 0
        idx == IF internal_repr.cls = "finite" /\ internal_repr.num > 0
               THEN internal_repr.num ELSE 0
    IN  IF past_any_end \/ idx >= Len(choices)
        THEN [panic |-> TRUE, value |-> ""]
        ELSE [panic |-> FALSE, value |-> choices[idx + 1]]

\* trait Distribution<T>: the two conversions of each variant.
to_internal_repr(dist, external_repr) ==
    CASE dist[1] = "IntUni" -> IntUniform_to_internal_repr(dist, external_repr)
      [] dist[1] = "Uni" -> Uniform_to_internal_repr(dist, external_repr)
      [] dist[1] = "LogUni" -> LogUniform_to_internal_repr(dist, external_repr)
      [] dist[1] = "Categorical" -> Categorical_to_internal_repr(dist, external_repr)

to_external_repr(dist, internal_repr) ==
    CASE dist[1] = "IntUni" ->
             [panic |-> FALSE, value |-> IntUniform_to_external_repr(dist, internal_repr)]
      [] dist[1] = "Uni" ->
             [panic |-> FALSE, value |-> Uniform_to_external_repr(dist, internal_repr)]
      [] dist[1] = "LogUni" ->
             [panic |-> FALSE, value |-> LogUniform_to_external_repr(dist, internal_repr)]
      [] dist[1] = "Categorical" -> Categorical_to_external_repr(dist, internal_repr)

\* ------------------------------------------------------------------ FrozenTrial
FrozenTrial_new(trial_id, state, value) ==
    [trial_id |-> trial_id, state |-> state, value |-> value,
     internal_params |-> EmptyMap, distributions |-> EmptyMap]

\* is_finised with the catch-all arm narrowed to Completed
is_finised_CompletedOnly(trial) == IF trial.state = "Completed" THEN TRUE ELSE FALSE

is_finised(trial) == IF trial.state = "Running" THEN FALSE ELSE TRUE

\* FrozenTrial::params: for every key of internal_params, the recorded
\* distribution (get_mut(..).unwrap(), line 151: a panic when there is none)
\* and the value converted by it, wrapped in the ExternalRepr variant of the
\* distribution.  The result is [res, external_repr].
ExternalRepr(dist, v) ==
    CASE dist[1] = "IntUni" -> <<"Int", v>>
      [] dist[1] = "Categorical" -> <<"Str", v>>
      [] OTHER -> <<"Float", v>>

FrozenTrial_params(trial) ==
    LET names == DOMAIN trial.internal_params
        converted(n) == to_external_repr(trial.distributions[n],
                                         trial.internal_params[n])
    IN  IF \E n \in names : n \notin DOMAIN trial.distributions
        THEN [res |-> "MissingDistribution", external_repr |-> <<>>]
        ELSE IF \E n \in names : converted(n).panic
        THEN [res |-> "IndexOutOfBounds", external_repr |-> <<>>]
        ELSE [res |-> "Ok",
              external_repr |->
                  [n \in names |-> ExternalRepr(trial.distributions[n],
                                                converted(n).value)]]

\* A &FrozenTrial into the trials vector (an item of self.trials.iter()): the
\* slot it points to, and the fields read through it.
Ref(trials, i) ==
    [slot |-> i, trial_id |-> trials[i].trial_id, state |-> trials[i].state,
     value |-> trials[i].value]

iter(trials) == [i \in 1..Len(trials) |-> Ref(trials, i)]

\* res handed out as it is, still pointing into the vector
FrozenTrial_clone_Share(trials, res) == [record |-> trials[res.slot], slot |-> res.slot]

\* res.clone() (#[derive(Clone)], line 121): a record with the fields of the
\* one res points to, owned by the caller; slot 0 is no slot of the vector.
FrozenTrial_clone(trials, res) == [record |-> trials[res.slot], slot |-> 0]

\* ------------------------------------------------------------------ Storage
\* Every Storage operation is an operator from the trials vector (and the
\* arguments) to [res, out, trials]: the Result's kind, its payload and the
\* vector afterwards.  res "NotFound" is the Err "Missing trial id(x): ..",
\* res "AlreadyFinished" is the Err "Cannot update finished tirals".
Storage_new == <<>>

\* create_new_trial numbering the trials from 1
create_new_trial_FromOne(trials) ==
    LET trial_id == Len(trials) + 1
        trial == FrozenTrial_new(trial_id, "Running", F(0))
    IN  [res |-> "Ok", out |-> trial_id, trials |-> Append(trials, trial)]

create_new_trial(trials) ==
    LET trial_id == Len(trials)
        trial == FrozenTrial_new(trial_id, "Running", F(0))
    IN  [res |-> "Ok", out |-> trial_id, trials |-> Append(trials, trial)]

\* get_trial without the filter on trial_id
get_trial_NoFilter(trials, trial_id) ==
    IF Len(trials) > 0
    THEN [res |-> "Ok", out |-> trials[1], slot |-> 0, trials |-> trials]
    ELSE [res |-> "NotFound", out |-> trial_id, slot |-> 0, trials |-> trials]

\* .iter().filter(|&trial| trial.trial_id == trial_id).collect(); .first()
get_trial(trials, trial_id) ==
    LET target == SelectSeq(iter(trials), LAMBDA trial : trial.trial_id = trial_id)
    IN  IF Len(target) > 0
        THEN LET c == FrozenTrial_clone(trials, target[1])
             IN  [res |-> "Ok", out |-> c.record, slot |-> c.slot, trials |-> trials]
        ELSE [res |-> "NotFound", out |-> trial_id, slot |-> 0, trials |-> trials]

\* find_target without the early return on a finished trial
RECURSIVE find_target_NoFinishedCheck(_, _, _, _)
find_target_NoFinishedCheck(trials, trial_id, i, target_idx) ==
    IF i >= Len(trials)
    THEN IF target_idx < 0 THEN [res |-> "NotFound", idx |-> target_idx]
                           ELSE [res |-> "Ok", idx |-> target_idx]
    ELSE IF trials[i + 1].trial_id = trial_id
         THEN find_target_NoFinishedCheck(trials, trial_id, i + 1, i)
         ELSE find_target_NoFinishedCheck(trials, trial_id, i + 1, target_idx)

\* The loop shared by set_trial_value, set_trial_state and set_trial_param
\* (lines 231-244): scans every index, returns at the first finished match,
\* remembers the last matching index in target_idx (-1 when none).
RECURSIVE find_target(_, _, _, _)
find_target(trials, trial_id, i, target_idx) ==
    IF i >= Len(trials)
    THEN IF target_idx < 0 THEN [res |-> "NotFound", idx |-> target_idx]
                           ELSE [res |-> "Ok", idx |-> target_idx]
    ELSE IF trials[i + 1].trial_id = trial_id
         THEN IF is_finised(trials[i + 1])
              THEN [res |-> "AlreadyFinished", idx |-> target_idx]
              ELSE find_target(trials, trial_id, i + 1, i)
         ELSE find_target(trials, trial_id, i + 1, target_idx)

\* set_trial_value returning Ok without the write of line 245
set_trial_value_NoWrite(trials, trial_id, value) ==
    LET t == find_target(trials, trial_id, 0, -1)
    IN  [res |-> t.res, out |-> trial_id, trials |-> trials]

set_trial_value(trials, trial_id, value) ==
    LET t == find_target(trials, trial_id, 0, -1)
    IN  IF t.res # "Ok"
        THEN [res |-> t.res, out |-> trial_id, trials |-> trials]
        ELSE [res |-> "Ok", out |-> trial_id,
              trials |-> [trials EXCEPT ![t.idx + 1].value = value]]

\* set_trial_state returning Ok without the write of line 264
set_trial_state_NoWrite(trials, trial_id, state) ==
    LET t == find_target(trials, trial_id, 0, -1)
    IN  [res |-> t.res, out |-> trial_id, trials |-> trials]

\* set_trial_state putting the value back to 0 as well
set_trial_state_ResetsValue(trials, trial_id, state) ==
    LET t == find_target(trials, trial_id, 0, -1)
    IN  IF t.res # "Ok"
        THEN [res |-> t.res, out |-> trial_id, trials |-> trials]
        ELSE [res |-> "Ok", out |-> trial_id,
              trials |-> [trials EXCEPT ![t.idx + 1].state = state,
                                        ![t.idx + 1].value = F(0)]]

set_trial_state(trials, trial_id, state) ==
    LET t == find_target(trials, trial_id, 0, -1)
    IN  IF t.res # "Ok"
        THEN [res |-> t.res, out |-> trial_id, trials |-> trials]
        ELSE [res |-> "Ok", out |-> trial_id,
              trials |-> [trials EXCEPT ![t.idx + 1].state = state]]

\* set_trial_param without the insert into distributions (lines 292-294)
set_trial_param_NoDistribution(trials, trial_id, name, distribution, value) ==
    LET t == find_target(trials, trial_id, 0, -1)
    IN  IF t.res # "Ok"
        THEN [res |-> t.res, out |-> trial_id, trials |-> trials]
        ELSE [res |-> "Ok", out |-> trial_id,
              trials |-> [trials EXCEPT
                  ![t.idx + 1].internal_params = HashMapInsert(@, name, value)]]

set_trial_param(trials, trial_id, name, distribution, value) ==
    LET t == find_target(trials, trial_id, 0, -1)
    IN  IF t.res # "Ok"
        THEN [res |-> t.res, out |-> trial_id, trials |-> trials]
        ELSE [res |-> "Ok", out |-> trial_id,
              trials |-> [trials EXCEPT
                  ![t.idx + 1].internal_params = HashMapInsert(@, name, value),
                  ![t.idx + 1].distributions = HashMapInsert(@, name, distribution)]]

\* insert_sorted putting an element before the elements it compares Equal to
RECURSIVE insert_sorted_BeforeEqual(_, _)
insert_sorted_BeforeEqual(sorted, trial) ==
    IF Len(sorted) = 0 THEN <<trial>>
    ELSE IF partial_cmp(sorted[1].value, trial.value) # "Less"
         THEN <<trial>> \o sorted
         ELSE <<sorted[1]>> \o insert_sorted_BeforeEqual(Tail(sorted), trial)

\* slice::sort_by (line 222) is a stable sort: an insertion sort that puts each
\* element after the elements that do not compare Greater than it.
RECURSIVE insert_sorted(_, _)
insert_sorted(sorted, trial) ==
    IF Len(sorted) = 0 THEN <<trial>>
    ELSE IF partial_cmp(sorted[1].value, trial.value) = "Greater"
         THEN <<trial>> \o sorted
         ELSE <<sorted[1]>> \o insert_sorted(Tail(sorted), trial)

RECURSIVE sort_by_value(_)
sort_by_value(s) ==
    IF Len(s) = 0 THEN <<>>
    ELSE insert_sorted(sort_by_value(SubSeq(s, 1, Len(s) - 1)), s[Len(s)])

get_best_trial(trials) ==
    LET completed == SelectSeq(iter(trials), LAMBDA trial : trial.state = "Completed")
        finite == SelectSeq(completed, LAMBDA trial : is_finite(trial.value))
        completed_trials == sort_by_value(finite)
    IN  IF Len(completed_trials) > 0
        THEN LET c == FrozenTrial_clone(trials, completed_trials[1])
             IN  [res |-> "Some", out |-> c.record, slot |-> c.slot, trials |-> trials]
        ELSE [res |-> "None", out |-> 0, slot |-> 0, trials |-> trials]

\* ------------------------------------------------------------------ Sampler
\* Each sample_* operator gives [panic, draws]: whether the call panics, and
\* otherwise the set of values self.rng can produce.  Uniform::from(low..=high)
\* panics when low > high or a bound is not finite; gen_range panics on an
\* empty range.  A float draw is modelled by the integer-valued floats of the
\* interval.
NoDraw == [panic |-> TRUE, draws |-> {}]

float_draws(low, high) ==
    IF is_finite(low) /\ is_finite(high) /\ low.num <= high.num
    THEN [panic |-> FALSE, draws |-> {F(n) : n \in low.num..high.num}]
    ELSE NoDraw

\* f64::ln of an integer-valued float, as far as the bounds of the draw need
\* it: ln(x) is finite exactly for finite x > 0 (ln 0 = -inf, ln of a negative
\* number is NaN).
ln_is_finite(x) == is_finite(x) /\ x.num > 0

sample_independent(distribution) ==
    LET dist == distribution[2]
    IN  IF distribution[1] = "Uni"
        THEN float_draws(dist.low, dist.high)
        ELSE IF distribution[1] = "LogUni"
        THEN IF ln_is_finite(dist.low) /\ ln_is_finite(dist.high)
             THEN float_draws(dist.low, dist.high)
             ELSE NoDraw
        ELSE [panic |-> FALSE, draws |-> {F(0)}]

sample_independent_int(distribution) ==
    LET dist == distribution[2]
    IN  IF distribution[1] = "IntUni"
        THEN IF dist.low <= dist.high
             THEN [panic |-> FALSE, draws |-> dist.low..dist.high]
             ELSE NoDraw
        ELSE [panic |-> FALSE, draws |-> {0}]

sample_independent_category(distribution) ==
    LET dist == distribution[2]
    IN  IF distribution[1] = "Categorical"
        THEN IF Len(dist.choices) > 0
             THEN [panic |-> FALSE,
                   draws |-> {dist.choices[idx] : idx \in 1..Len(dist.choices)}]
             ELSE NoDraw
        ELSE [panic |-> FALSE, draws |-> {""}]

\* ------------------------------------------------------------------ Trial
\* The handle: a Study held by value and a trial id.
Trial_new(study_, trial_id) == [study |-> study_, trial_id |-> trial_id]

\* A suggest_* call is <<method, arguments>>; Dist is the distribution it
\* constructs, Sample the sampler call it makes and ToInternal the conversion
\* it applies to the drawn value.
SuggestInt(low, high) == <<"suggest_int", [low |-> low, high |-> high]>>
SuggestUniform(low, high) == <<"suggest_uniform", [low |-> low, high |-> high]>>
SuggestLog(low, high) == <<"suggest_log", [low |-> low, high |-> high]>>
SuggestCategorical(choices) == <<"suggest_categorical", [choices |-> choices]>>

Dist(call) ==
    CASE call[1] = "suggest_int" -> IntUni(call[2].low, call[2].high)
      [] call[1] = "suggest_uniform" -> Uni(call[2].low, call[2].high)
      [] call[1] = "suggest_log" -> LogUni(call[2].low, call[2].high)
      [] call[1] = "suggest_categorical" -> Categorical(call[2].choices)

Sample(call) ==
    CASE call[1] = "suggest_int" -> sample_independent_int(Dist(call))
      [] call[1] = "suggest_uniform" -> sample_independent(Dist(call))
      [] call[1] = "suggest_log" -> sample_independent(Dist(call))
      [] call[1] = "suggest_categorical" -> sample_independent_category(Dist(call))

ToInternal(call, param_value) ==
    CASE call[1] = "suggest_int" -> IntUniform_to_internal_repr(Dist(call), param_value)
      [] call[1] = "suggest_uniform" -> Uniform_to_internal_repr(Dist(call), param_value)
      [] call[1] = "suggest_log" -> LogUniform_to_internal_repr(Dist(call), param_value)
      [] call[1] = "suggest_categorical" ->
             Categorical_to_internal_repr(Dist(call), param_value)

\* The body shared by the four suggest_* methods once the sampler has drawn
\* param_value: get_trial (result unused), convert, set_trial_param on the
\* handle's own study (its Result is dropped), return Ok(param_value).
suggest(handle, name, call, param_value) ==
    LET got == get_trial(handle.study.storage, handle.trial_id)
        param_value_in_internal_repr == ToInternal(call, param_value)
        set == set_trial_param(handle.study.storage, handle.trial_id, name,
                               Dist(call), param_value_in_internal_repr)
    IN  [res |-> "Ok", out |-> param_value,
         handle |-> [handle EXCEPT !.study.storage = set.trials]]

\* ------------------------------------------------------------------ obj
\* (x as f64 - 3).powf(2.0) + (y as f64 - 5).powf(2.0)
obj_value(x, y) == F((x - 3) * (x - 3) + (y - 5) * (y - 5))

\* ------------------------------------------------------------------ state
VARIABLES
    study,      \* the Study of the caller / of optimize (self): [storage]
    trial,      \* the live Trial handle: <<>> or <<[study, trial_id]>>
    pc,         \* "idle", "handle", "loop", "objective", "returned", "valued",
                \* "done" or "panicked"
    objective,  \* the objective optimize runs: "none", "generic" or "obj"
    n_left,     \* iterations of `for _ in 0..n_trials` still to run
    frame,      \* obj's position and locals: [step, x, y]
    value,      \* the local `value` of optimize
    opt,        \* history of the optimize call: [k, running, n_trials, created,
                \* returned]: the number of trials and the ids Running at the
                \* call, its argument, the ids create_new_trial returned and
                \* the values the objective returned
    ret,        \* the last call: [op, id, res] (and [name, call] of a suggest_*,
                \* [name, distribution, value] of a set_trial_param, [slot] of
                \* a read: where the returned FrozenTrial lives)
    out         \* what the last call returned: <<op, res, payload>>

vars == <<study, trial, pc, objective, n_left, frame, value, opt, ret, out>>

Study_new(storage) == [storage |-> storage]

NoOpt == [k |-> 0, running |-> {}, n_trials |-> 0, created |-> <<>>, returned |-> <<>>]
NoFrame == [step |-> 0, x |-> 0, y |-> 0]

\* main: create_study(Storage::new(), Sampler::new())
Init ==
    /\ study = Study_new(Storage_new)
    /\ trial = <<>>
    /\ pc = "idle"
    /\ objective = "none"
    /\ n_left = 0
    /\ frame = NoFrame
    /\ value = F(0)
    /\ opt = NoOpt
    /\ ret = [op |-> "new", id |-> 0, res |-> "Ok"]
    /\ out = <<"new", "Ok", 0>>

\* A call of a Storage method has returned r.
Call(op, id, r) ==
    /\ ret' = [op |-> op, id |-> id, res |-> r.res]
    /\ out' = <<op, r.res, r.out>>

\* ------------------------------------------------------------------ Storage calls
\* Calls made on study.storage by the owner of the study, before optimize
\* consumes it.
CreateNewTrial(limit) ==
    /\ pc = "idle"
    /\ Len(study.storage) < limit
    /\ LET r == create_new_trial(study.storage)
       IN  /\ study' = [study EXCEPT !.storage = r.trials]
           /\ Call("create_new_trial", r.out, r)
    /\ UNCHANGED <<trial, pc, objective, n_left, frame, value, opt>>

GetTrial(trial_id) ==
    /\ pc = "idle"
    /\ LET r == get_trial(study.storage, trial_id)
       IN  /\ study' = [study EXCEPT !.storage = r.trials]
           /\ ret' = [op |-> "get_trial", id |-> trial_id, res |-> r.res,
                      slot |-> r.slot]
           /\ out' = <<"get_trial", r.res, r.out>>
    /\ UNCHANGED <<trial, pc, objective, n_left, frame, value, opt>>

\* Study::best_trial
GetBestTrial ==
    /\ pc = "idle"
    /\ LET r == get_best_trial(study.storage)
       IN  /\ study' = [study EXCEPT !.storage = r.trials]
           /\ ret' = [op |-> "get_best_trial", id |-> 0, res |-> r.res,
                      slot |-> r.slot]
           /\ out' = <<"get_best_trial", r.res, r.out>>
    /\ UNCHANGED <<trial, pc, objective, n_left, frame, value, opt>>

SetTrialValue(trial_id, v) ==
    /\ pc = "idle"
    /\ LET r == set_trial_value(study.storage, trial_id, v)
       IN  /\ study' = [study EXCEPT !.storage = r.trials]
           /\ Call("set_trial_value", trial_id, r)
    /\ UNCHANGED <<trial, pc, objective, n_left, frame, value, opt>>

SetTrialState(trial_id, state) ==
    /\ pc = "idle"
    /\ LET r == set_trial_state(study.storage, trial_id, state)
       IN  /\ study' = [study EXCEPT !.storage = r.trials]
           /\ Call("set_trial_state", trial_id, r)
    /\ UNCHANGED <<trial, pc, objective, n_left, frame, value, opt>>

SetTrialParam(trial_id, name, distribution, v) ==
    /\ pc = "idle"
    /\ LET r == set_trial_param(study.storage, trial_id, name, distribution, v)
       IN  /\ study' = [study EXCEPT !.storage = r.trials]
           /\ ret' = [op |-> "set_trial_param", id |-> trial_id, res |-> r.res,
                      name |-> name, distribution |-> distribution, value |-> v]
           /\ out' = <<"set_trial_param", r.res, r.out>>
    /\ UNCHANGED <<trial, pc, objective, n_left, frame, value, opt>>

\* The caller of get_trial or get_best_trial assigns v to a field of the
\* FrozenTrial it was given.  The assignment goes where that FrozenTrial lives:
\* in the caller's own value, and in the slot of the vector if it is one.
WriteReturned(field, v) ==
    /\ pc = "idle"
    /\ "slot" \in DOMAIN ret
    /\ ret.res \in {"Ok", "Some"}
    /\ LET written == [out[3] EXCEPT ![field] = v]
       IN  /\ out' = <<"write_returned", "Ok", written>>
           /\ study' = IF ret.slot > 0
                       THEN [study EXCEPT !.storage[ret.slot] = written]
                       ELSE study
    /\ ret' = [op |-> "write_returned", id |-> out[3].trial_id, res |-> "Ok",
               slot |-> ret.slot]
    /\ UNCHANGED <<trial, pc, objective, n_left, frame, value, opt>>

\* The caller of get_trial or get_best_trial calls params() on the
\* FrozenTrial it was given; a panic unwinds through the caller.
Params ==
    /\ pc = "idle"
    /\ "slot" \in DOMAIN ret
    /\ ret.res \in {"Ok", "Some"}
    /\ LET r == FrozenTrial_params(out[3])
       IN  /\ ret' = [op |-> "params", id |-> out[3].trial_id, res |-> r.res]
           /\ out' = <<"params", r.res, r.external_repr>>
           /\ pc' = IF r.res = "Ok" THEN pc ELSE "panicked"
    /\ UNCHANGED <<study, trial, objective, n_left, frame, value, opt>>

\* ------------------------------------------------------------------ conversions
\* dist.to_internal_repr(external_repr).  Arguments and results are kept
\* together with the variant they belong to: <<variant, value>>.
ToInternalRepr(dist, external_repr) ==
    /\ pc = "idle"
    /\ ret' = [op |-> "to_internal_repr", id |-> 0, res |-> "Ok",
               distribution |-> dist, arg |-> <<dist[1], external_repr>>]
    /\ out' = <<"to_internal_repr", "Ok",
                <<dist[1], to_internal_repr(dist, external_repr)>>>>
    /\ UNCHANGED <<study, trial, pc, objective, n_left, frame, value, opt>>

\* dist.to_external_repr(internal_repr)
ToExternalRepr(dist, internal_repr) ==
    /\ pc = "idle"
    /\ LET r == to_external_repr(dist, internal_repr)
       IN  /\ ret' = [op |-> "to_external_repr", id |-> 0,
                      res |-> IF r.panic THEN "panic" ELSE "Ok",
                      distribution |-> dist, arg |-> <<dist[1], internal_repr>>]
           /\ out' = <<"to_external_repr", IF r.panic THEN "panic" ELSE "Ok",
                       <<dist[1], r.value>>>>
           /\ pc' = IF r.panic THEN "panicked" ELSE pc
    /\ UNCHANGED <<study, trial, objective, n_left, frame, value, opt>>

\* dist.to_external_repr(dist.to_internal_repr(external_repr)): the second
\* conversion, applied to what the first returned; arg is external_repr.
RoundTrip ==
    /\ pc = "idle"
    /\ ret.op = "to_internal_repr"
    /\ LET r == to_external_repr(ret.distribution, out[3][2])
       IN  /\ ret' = [op |-> "round_trip", id |-> 0,
                      res |-> IF r.panic THEN "panic" ELSE "Ok",
                      distribution |-> ret.distribution, arg |-> ret.arg]
           /\ out' = <<"round_trip", IF r.panic THEN "panic" ELSE "Ok",
                       <<ret.distribution[1], r.value>>>>
           /\ pc' = IF r.panic THEN "panicked" ELSE pc
    /\ UNCHANGED <<study, trial, objective, n_left, frame, value, opt>>

\* ------------------------------------------------------------------ Trial calls
\* Trial::new(study.clone(), trial_id), as optimize builds its handle (line
\* 458), made by the owner of the study.
TrialNew(trial_id) ==
    /\ pc = "idle"
    /\ trial' = <<Trial_new(study, trial_id)>>
    /\ pc' = "handle"
    /\ ret' = [op |-> "Trial::new", id |-> trial_id, res |-> "Ok"]
    /\ out' = <<"Trial::new", "Ok", 0>>
    /\ UNCHANGED <<study, objective, n_left, frame, value, opt>>

\* One suggest_* call on the live handle.  A panic of the sampler unwinds
\* through the caller.
Suggest(name, call) ==
    LET s == Sample(call)
    IN  IF s.panic
        THEN /\ pc' = "panicked"
             /\ ret' = [op |-> call[1], id |-> trial[1].trial_id, res |-> "panic",
                        name |-> name, call |-> call]
             /\ out' = <<call[1], "panic", 0>>
             /\ UNCHANGED trial
        ELSE \E param_value \in s.draws :
                LET r == suggest(trial[1], name, call, param_value)
                IN  /\ trial' = <<r.handle>>
                    /\ ret' = [op |-> call[1], id |-> trial[1].trial_id,
                               res |-> r.res, name |-> name, call |-> call]
                    /\ out' = <<call[1], r.res, r.out>>
                    /\ UNCHANGED pc

TrialSuggest(name, call) ==
    /\ pc = "handle"
    /\ Suggest(name, call)
    /\ UNCHANGED <<study, objective, n_left, frame, value, opt>>

\* The handle goes out of scope.
TrialDrop ==
    /\ pc = "handle"
    /\ trial' = <<>>
    /\ pc' = "idle"
    /\ ret' = [op |-> "drop", id |-> trial[1].trial_id, res |-> "Ok"]
    /\ out' = <<"drop", "Ok", 0>>
    /\ UNCHANGED <<study, objective, n_left, frame, value, opt>>

\* ------------------------------------------------------------------ Study::optimize
\* study.optimize(objective, n_trials): self is the study, moved in.
Optimize(f, n_trials) ==
    /\ pc = "idle"
    /\ pc' = "loop"
    /\ objective' = f
    /\ n_left' = n_trials
    /\ opt' = [k |-> Len(study.storage),
               running |-> {i \in 0..(Len(study.storage) - 1) :
                               study.storage[i + 1].state = "Running"},
               n_trials |-> n_trials, created |-> <<>>, returned |-> <<>>]
    /\ ret' = [op |-> "optimize", id |-> n_trials, res |-> "Ok"]
    /\ out' = <<"optimize", "Ok", 0>>
    /\ UNCHANGED <<study, trial, frame, value>>

\* lines 457-458: create_new_trial, Trial::new(self.clone(), trial_id); the
\* objective is entered.
OptimizeCreate ==
    /\ pc = "loop"
    /\ n_left > 0
    /\ LET r == create_new_trial(study.storage)
       IN  /\ study' = [study EXCEPT !.storage = r.trials]
           /\ trial' = <<Trial_new([study EXCEPT !.storage = r.trials], r.out)>>
           /\ opt' = [opt EXCEPT !.created = Append(@, r.out)]
           /\ Call("create_new_trial", r.out, r)
    /\ pc' = "objective"
    /\ frame' = NoFrame
    /\ UNCHANGED <<objective, n_left, value>>

\* The range 0..n_trials is exhausted: optimize returns and drops the study.
OptimizeReturn ==
    /\ pc = "loop"
    /\ n_left = 0
    /\ pc' = "done"
    /\ ret' = [op |-> "optimize_return", id |-> 0, res |-> "Ok"]
    /\ out' = <<"optimize_return", "Ok", 0>>
    /\ UNCHANGED <<study, trial, objective, n_left, frame, value, opt>>

\* An objective that calls suggest_* on its handle some number of times ...
ObjectiveSuggest(name, call) ==
    /\ pc = "objective"
    /\ objective = "generic"
    /\ Suggest(name, call)
    /\ UNCHANGED <<study, objective, n_left, frame, value, opt>>

\* ... and returns an f64 to line 459 ...
ObjectiveReturn(v) ==
    /\ pc = "objective"
    /\ objective = "generic"
    /\ value' = v
    /\ opt' = [opt EXCEPT !.returned = Append(@, v)]
    /\ pc' = "returned"
    /\ ret' = [op |-> "objective", id |-> trial[1].trial_id, res |-> "Ok"]
    /\ out' = <<"objective", "Ok", v>>
    /\ UNCHANGED <<study, trial, objective, n_left, frame>>

\* ... or panics (an unwrap of an Err, an index out of range, ...): the panic
\* unwinds through optimize, which has no handler.
ObjectivePanic ==
    /\ pc = "objective"
    /\ objective = "generic"
    /\ pc' = "panicked"
    /\ ret' = [op |-> "objective", id |-> trial[1].trial_id, res |-> "panic"]
    /\ out' = <<"objective", "panic", 0>>
    /\ UNCHANGED <<study, trial, objective, n_left, frame, value, opt>>

\* obj, line 9: let x = trial.suggest_int("x", 0, 10).unwrap()
ObjX ==
    /\ pc = "objective"
    /\ objective = "obj"
    /\ frame.step = 0
    /\ Suggest("x", SuggestInt(0, 10))
    /\ frame' = [frame EXCEPT !.step = 1, !.x = out'[3]]
    /\ UNCHANGED <<study, objective, n_left, value, opt>>

\* obj, line 10: let y = trial.suggest_int("y", 0, 10).unwrap()
ObjY ==
    /\ pc = "objective"
    /\ objective = "obj"
    /\ frame.step = 1
    /\ Suggest("y", SuggestInt(0, 10))
    /\ frame' = [frame EXCEPT !.step = 2, !.y = out'[3]]
    /\ UNCHANGED <<study, objective, n_left, value, opt>>

\* obj, line 11, and the return to line 459
ObjReturn ==
    /\ pc = "objective"
    /\ objective = "obj"
    /\ frame.step = 2
    /\ value' = obj_value(frame.x, frame.y)
    /\ opt' = [opt EXCEPT !.returned = Append(@, obj_value(frame.x, frame.y))]
    /\ pc' = "returned"
    /\ ret' = [op |-> "objective", id |-> trial[1].trial_id, res |-> "Ok"]
    /\ out' = <<"objective", "Ok", obj_value(frame.x, frame.y)>>
    /\ UNCHANGED <<study, trial, objective, n_left, frame>>

\* line 461: self.storage.set_trial_value(trial_id, value); the Result is dropped
OptimizeSetValue ==
    /\ pc = "returned"
    /\ LET r == set_trial_value(study.storage, trial[1].trial_id, value)
       IN  /\ study' = [study EXCEPT !.storage = r.trials]
           /\ Call("set_trial_value", trial[1].trial_id, r)
    /\ pc' = "valued"
    /\ UNCHANGED <<trial, objective, n_left, frame, value, opt>>

\* lines 462-464: self.storage.set_trial_state(trial_id, Completed); the Result
\* is dropped, the handle is dropped, the loop goes round.
OptimizeSetState ==
    /\ pc = "valued"
    /\ LET r == set_trial_state(study.storage, trial[1].trial_id, "Completed")
       IN  /\ study' = [study EXCEPT !.storage = r.trials]
           /\ Call("set_trial_state", trial[1].trial_id, r)
    /\ trial' = <<>>
    /\ n_left' = n_left - 1
    /\ pc' = "loop"
    /\ UNCHANGED <<objective, frame, value, opt>>

\* ------------------------------------------------------------------ inputs
States == {"Running", "Completed", "Failed"}
Names == {"x", "y"}
\* ids tried by direct calls: every id in use and one past the last
StoreIds == 0..MaxTrials
SetValues == {F(1), NaN}
ParamNames == {"x"}
ParamInputs == {[distribution |-> IntUni(0, 1), value |-> F(1)]}
\* what the generic objective of Spec does with its handle and returns
ObjectiveCalls == {SuggestInt(0, 1), SuggestInt(1, 0)}
ObjectiveValues == {F(1), NaN}

\* ------------------------------------------------------------------ Spec
\* The store driven directly, then Study::optimize with a generic objective.
StoreNext ==
    \/ CreateNewTrial(MaxTrials)
    \/ \E trial_id \in StoreIds : GetTrial(trial_id)
    \/ GetBestTrial
    \/ \E trial_id \in StoreIds, v \in SetValues : SetTrialValue(trial_id, v)
    \/ \E trial_id \in StoreIds, state \in States : SetTrialState(trial_id, state)
    \/ \E trial_id \in StoreIds, name \in ParamNames, p \in ParamInputs :
          SetTrialParam(trial_id, name, p.distribution, p.value)

OptimizeNext ==
    \/ \E n_trials \in 0..MaxN : Optimize("generic", n_trials)
    \/ OptimizeCreate
    \/ \E call \in ObjectiveCalls : ObjectiveSuggest("x", call)
    \/ \E v \in ObjectiveValues : ObjectiveReturn(v)
    \/ ObjectivePanic
    \/ OptimizeSetValue
    \/ OptimizeSetState
    \/ OptimizeReturn

Next == StoreNext \/ OptimizeNext

Spec == Init /\ [][Next]_vars

\* ------------------------------------------------------------------ SpecNormal
\* Store calls, then optimize with an objective that returns normally every time: it passes
\* well-formed bounds and does not panic.  Every step of optimize is taken
\* once it can be, and the objective returns.
NormalCalls == {SuggestInt(0, 1)}

OptimizeStep ==
    \/ OptimizeCreate
    \/ OptimizeSetValue
    \/ OptimizeSetState
    \/ OptimizeReturn

ObjectiveReturns == \E v \in ObjectiveValues : ObjectiveReturn(v)

NormalNext ==
    \/ CreateNewTrial(MaxTrials)
    \/ \E trial_id \in StoreIds, v \in SetValues : SetTrialValue(trial_id, v)
    \/ \E trial_id \in StoreIds, state \in States : SetTrialState(trial_id, state)
    \/ \E n_trials \in 0..MaxN : Optimize("generic", n_trials)
    \/ \E call \in NormalCalls : ObjectiveSuggest("x", call)
    \/ ObjectiveReturns
    \/ OptimizeStep

SpecNormal ==
    Init /\ [][NormalNext]_vars /\ WF_vars(OptimizeStep) /\ WF_vars(ObjectiveReturns)

\* ------------------------------------------------------------------ SpecTrial
\* Handles built by Trial::new on clones of a study whose trials are in any
\* state, and every kind of suggest_* call on them.
SuggestCalls ==
    {SuggestInt(0, 1), SuggestInt(1, 0), SuggestCategorical(<<"a", "b">>),
     SuggestUniform(F(0), F(1)), SuggestLog(F(1), F(2)),
     SuggestUniform(F(1), F(0)), SuggestLog(F(0), F(1)), SuggestCategorical(<<>>),
     SuggestInt(Above53 + 1, Above53 + 1)}

TrialNext ==
    \/ CreateNewTrial(MaxTrials)
    \/ \E trial_id \in StoreIds, state \in States : SetTrialState(trial_id, state)
    \/ \E trial_id \in StoreIds : TrialNew(trial_id)
    \/ \E name \in Names, call \in SuggestCalls : TrialSuggest(name, call)
    \/ TrialDrop

SpecTrial == Init /\ [][TrialNext]_vars

\* ------------------------------------------------------------------ SpecObj
\* main: study.optimize(obj, n_trials), on a study that may hold trials.
ObjNext ==
    \/ CreateNewTrial(MaxTrials)
    \/ \E n_trials \in 0..MaxN : Optimize("obj", n_trials)
    \/ OptimizeCreate
    \/ ObjX
    \/ ObjY
    \/ ObjReturn
    \/ OptimizeSetValue
    \/ OptimizeSetState
    \/ OptimizeReturn

SpecObj == Init /\ [][ObjNext]_vars

\* ------------------------------------------------------------------ SpecBest
\* The store driven directly, with values of every class and no parameters.
BestValues == {F(-1), F(1), NaN, NegInf}

BestNext ==
    \/ CreateNewTrial(MaxBestTrials)
    \/ \E trial_id \in 0..(Len(study.storage) - 1), v \in BestValues :
          SetTrialValue(trial_id, v)
    \/ \E trial_id \in 0..(Len(study.storage) - 1), state \in States :
          SetTrialState(trial_id, state)
    \/ GetBestTrial

SpecBest == Init /\ [][BestNext]_vars

\* ------------------------------------------------------------------ SpecFrame
\* The three writes of the store, on several trials and under two names.
FrameValues == {F(1)}

FrameNext ==
    \/ CreateNewTrial(MaxTrials)
    \/ \E trial_id \in StoreIds, v \in FrameValues : SetTrialValue(trial_id, v)
    \/ \E trial_id \in StoreIds, state \in States : SetTrialState(trial_id, state)
    \/ \E trial_id \in StoreIds, name \in Names, p \in ParamInputs :
          SetTrialParam(trial_id, name, p.distribution, p.value)

SpecFrame == Init /\ [][FrameNext]_vars

\* ------------------------------------------------------------------ SpecRepr
\* The conversions of every variant, applied to bounded inputs.
Labels == {"a", "b", "c"}
ChoiceLists == UNION {[1..n -> {"a", "b"}] : n \in 0..MaxChoices}
Ints == (0 - MaxInt)..MaxInt
WideInts == Above53..(Above53 + MaxInt)
Floats == {F(n) : n \in Ints} \cup {NaN, NegInf, PosInf}
IntDists ==
    {IntUni(low, high) : low \in Ints, high \in Ints}
        \cup {IntUni(low, Above53 + MaxInt) : low \in {0, Above53}}
FloatDists == {Uni(F(0), F(1)), LogUni(F(1), F(2))}
CategoricalDists == {Categorical(choices) : choices \in ChoiceLists}

ReprNext ==
    \/ \E dist \in IntDists, n \in Ints \cup WideInts : ToInternalRepr(dist, n)
    \/ \E dist \in FloatDists, x \in Floats : ToInternalRepr(dist, x)
    \/ \E dist \in CategoricalDists, label \in Labels : ToInternalRepr(dist, label)
    \/ \E dist \in IntDists, x \in {F(n) : n \in Ints} \cup {NaN} :
          ToExternalRepr(dist, x)
    \/ \E dist \in FloatDists \cup CategoricalDists, x \in Floats :
          ToExternalRepr(dist, x)
    \/ RoundTrip

SpecRepr == Init /\ [][ReprNext]_vars

\* ------------------------------------------------------------------ SpecRead
\* The store driven directly, its records read, and the records that were
\* read written to by their holder.
ReadValues == {F(1)}
ReturnedWrites ==
    {<<"state", "Running">>, <<"state", "Failed">>, <<"value", F(2)>>,
     <<"internal_params", "x" :> F(2)>>,
     <<"distributions", "x" :> IntUni(0, 2)>>}

ReadNext ==
    \/ CreateNewTrial(MaxTrials)
    \/ \E trial_id \in StoreIds, v \in ReadValues : SetTrialValue(trial_id, v)
    \/ \E trial_id \in StoreIds : SetTrialState(trial_id, "Completed")
    \/ \E trial_id \in StoreIds : GetTrial(trial_id)
    \/ GetBestTrial
    \/ \E w \in ReturnedWrites : WriteReturned(w[1], w[2])

SpecRead == Init /\ [][ReadNext]_vars

\* ------------------------------------------------------------------ SpecParam
\* One trial written by set_trial_param directly and by suggest_* through a
\* handle, under two names, with two distributions per name, read by
\* get_trial and turned into its external parameter map.
OverwriteInputs ==
    {[distribution |-> IntUni(0, 1), value |-> F(1)],
     [distribution |-> Uni(F(0), F(0)), value |-> F(0)]}
OverwriteCalls == {SuggestInt(0, 1), SuggestUniform(F(0), F(0))}

ParamNext ==
    \/ CreateNewTrial(MaxParamTrials)
    \/ \E trial_id \in 0..MaxParamTrials : SetTrialState(trial_id, "Completed")
    \/ \E trial_id \in 0..MaxParamTrials, name \in Names, p \in OverwriteInputs :
          SetTrialParam(trial_id, name, p.distribution, p.value)
    \/ \E trial_id \in 0..MaxParamTrials : TrialNew(trial_id)
    \/ \E name \in Names, call \in OverwriteCalls : TrialSuggest(name, call)
    \/ TrialDrop
    \/ \E trial_id \in 0..MaxParamTrials : GetTrial(trial_id)
    \/ Params

SpecParam == Init /\ [][ParamNext]_vars

\* ------------------------------------------------------------------ claims
SetOps == {"set_trial_value", "set_trial_state", "set_trial_param"}
Terminal == {"Completed", "Failed"}

\* C1: a set_trial_value, set_trial_state or set_trial_param call on the id of
\* a Completed or Failed record returns the AlreadyFinished error and leaves
\* every record of the store as it was.
C1_FinishedTrialRejectsMutation ==
    [][\A i \in 1..Len(study.storage) :
          (/\ ret'.op \in SetOps
           /\ ret'.id = study.storage[i].trial_id
           /\ study.storage[i].state \in Terminal)
          => (ret'.res = "AlreadyFinished" /\ study'.storage = study.storage)]_vars

\* A set_trial_param call has just been refused on a Failed trial.
C1_Witness ==
    /\ ret.op = "set_trial_param"
    /\ ret.res = "AlreadyFinished"
    /\ ret.id < Len(study.storage)
    /\ study.storage[ret.id + 1].state = "Failed"

\* C5: a record that is Completed or Failed is the same in every later store,
\* the sequence of records never shrinks, and a state changes only from
\* Running, to Completed or to Failed.
C5_TerminalIsForever ==
    [][/\ Len(study'.storage) >= Len(study.storage)
       /\ \A i \in 1..Len(study.storage) :
             /\ study.storage[i].state \in Terminal
                   => study'.storage[i] = study.storage[i]
             /\ study'.storage[i].state # study.storage[i].state
                   => /\ study.storage[i].state = "Running"
                      /\ study'.storage[i].state \in Terminal]_vars

\* A trial was Failed before optimize was called, and optimize has since run
\* at least one trial to the end.
C5_Witness ==
    /\ pc = "done"
    /\ opt.k >= 1
    /\ opt.n_trials >= 1
    /\ study.storage[1].state = "Failed"
    /\ study.storage[Len(study.storage)].state = "Completed"

\* C9: get_trial and the three set_trial_* calls with an id that is at least
\* the number of created trials return the NotFound error and leave the store
\* unchanged; get_trial with a smaller id returns the record with that id.
C9_UnknownIdNotFound ==
    [][/\ (ret'.op \in SetOps \cup {"get_trial"} /\ ret'.id >= Len(study.storage))
          => (ret'.res = "NotFound" /\ study'.storage = study.storage)
       /\ (ret'.op = "get_trial" /\ ret'.id < Len(study.storage))
          => /\ ret'.res = "Ok"
             /\ out'[3].trial_id = ret'.id
             /\ out'[3] = study.storage[ret'.id + 1]
             /\ study'.storage = study.storage]_vars

\* A set_trial_state call on a store of two trials has just returned NotFound.
C9_Witness ==
    /\ ret.op = "set_trial_state"
    /\ ret.res = "NotFound"
    /\ Len(study.storage) >= 2

\* C10: create_new_trial returns the number of trials created before it and
\* appends a Running record with value 0 and empty maps, changing no other
\* record; the record at position i always has trial_id i; the sequence of
\* trials never shrinks.
C10_CreateAppendsDenseIds ==
    /\ [](\A i \in 1..Len(study.storage) : study.storage[i].trial_id = i - 1)
    /\ [][/\ Len(study'.storage) >= Len(study.storage)
          /\ ret'.op = "create_new_trial"
             => /\ ret'.res = "Ok"
                /\ out'[3] = Len(study.storage)
                /\ study'.storage =
                      Append(study.storage,
                             [trial_id |-> Len(study.storage), state |-> "Running",
                              value |-> F(0), internal_params |-> <<>>,
                              distributions |-> <<>>])]_vars

\* create_new_trial has just returned 1 on a store whose first trial has a
\* parameter and is sealed.
C10_Witness ==
    /\ ret.op = "create_new_trial"
    /\ out[3] = 1
    /\ Len(study.storage) = 2
    /\ study.storage[1].state = "Completed"
    /\ "x" \in DOMAIN study.storage[1].internal_params

\* The positions of the records get_best_trial may return.
Candidates ==
    {i \in 1..Len(study.storage) :
        /\ study.storage[i].state = "Completed"
        /\ study.storage[i].value.cls = "finite"}

\* C3: get_best_trial returns nothing exactly when no record is Completed with
\* a finite value; otherwise it returns a Completed record with a finite value
\* such that every other such record has a greater value, or the same value
\* and a greater trial id.
C3_BestIsMinimumLowestId ==
    ret.op = "get_best_trial" =>
        /\ ret.res \in {"None", "Some"}
        /\ (ret.res = "None") <=> (Candidates = {})
        /\ ret.res = "Some" =>
              \E i \in Candidates :
                  /\ out[3] = study.storage[i]
                  /\ \A j \in Candidates \ {i} :
                        \/ study.storage[j].value.num > study.storage[i].value.num
                        \/ /\ study.storage[j].value.num = study.storage[i].value.num
                           /\ study.storage[j].trial_id > study.storage[i].trial_id

\* get_best_trial has returned trial 1, whose value is below that of the
\* Completed trial 0 and equal to that of the Completed trial 2.
C3_Witness ==
    /\ ret.op = "get_best_trial"
    /\ ret.res = "Some"
    /\ Len(study.storage) = 3
    /\ out[3].trial_id = 1
    /\ Candidates = {1, 2, 3}
    /\ study.storage[1].value.num > out[3].value.num
    /\ study.storage[3].value = out[3].value

SuggestOps == {"suggest_int", "suggest_uniform", "suggest_log", "suggest_categorical"}

\* The ids of the Running records of the study's store.
RunningIds ==
    {study.storage[i].trial_id : i \in {j \in 1..Len(study.storage) :
                                          study.storage[j].state = "Running"}}

\* C2: when a suggest_* call on the handle of a trial that is Running in the
\* study's store returns a value, the study's store holds for that trial and
\* name the internal representation of the value and the distribution of the
\* call.
C2_SuggestWritesStudyStore ==
    [][(/\ ret'.op \in SuggestOps
        /\ ret'.res = "Ok"
        /\ ret'.id \in RunningIds)
       => LET record == study'.storage[ret'.id + 1]
          IN  /\ ret'.name \in DOMAIN record.internal_params
              /\ ret'.name \in DOMAIN record.distributions
              /\ record.internal_params[ret'.name] = ToInternal(ret'.call, out'[3])
              /\ record.distributions[ret'.name] = Dist(ret'.call)]_vars

\* C4: a suggest_* call (one that draws a value: its bounds are well formed)
\* on a handle whose trial is Completed or Failed, in the store the handle
\* writes to, returns the AlreadyFinished error and records nothing.
C4_SuggestOnFinishedTrialFails ==
    [][(/\ ret'.op \in SuggestOps
        /\ ret'.res # "panic"
        /\ ret'.id < Len(trial[1].study.storage)
        /\ trial[1].study.storage[ret'.id + 1].state \in Terminal)
       => /\ ret'.res = "AlreadyFinished"
          /\ trial'[1].study.storage = trial[1].study.storage]_vars

\* C6 as amended: optimize ends; at the end the ids it created are
\* k, .., k+n-1 in that order and the store holds k+n records; each of the n
\* records is Completed with the value the objective returned for it; the
\* Running records are those that were Running at the call; the write of the
\* value comes first, then the write of the state, and both return Ok.
C6_OptimizeSealsNTrials ==
    /\ [](pc = "done" =>
            /\ Len(study.storage) = opt.k + opt.n_trials
            /\ opt.created = [i \in 1..opt.n_trials |-> opt.k + i - 1]
            /\ Len(opt.returned) = opt.n_trials
            /\ \A i \in 1..opt.n_trials :
                  /\ study.storage[opt.k + i].trial_id = opt.k + i - 1
                  /\ study.storage[opt.k + i].state = "Completed"
                  /\ study.storage[opt.k + i].value = opt.returned[i]
            /\ RunningIds = opt.running)
    /\ [][/\ pc = "returned"
             => (ret'.op = "set_trial_value" /\ ret'.res = "Ok" /\ pc' = "valued")
          /\ pc = "valued"
             => (ret'.op = "set_trial_state" /\ ret'.res = "Ok"
                 /\ ret'.id = ret.id /\ ret.op = "set_trial_value")]_vars
    /\ (pc = "loop") ~> (pc = "done")

\* optimize has run two trials to the end on a store that held one trial.
C6_Witness ==
    /\ pc = "done"
    /\ opt.k = 1
    /\ opt.n_trials = 2
    /\ study.storage[2].value # study.storage[3].value

\* C6 as stated: when optimize has ended, the n trials are Completed and no
\* trial of the store is Running.
C6_NoTrialRunningAtEnd ==
    pc = "done" =>
        /\ \A i \in 1..opt.n_trials : study.storage[opt.k + i].state = "Completed"
        /\ RunningIds = {}

\* C7: every Completed record of the store of optimize(obj, n) holds the
\* parameters x and y, and its value is f of their external representations.
C7_ValueIsObjOfStoredParams ==
    \A i \in 1..Len(study.storage) :
        (objective = "obj" /\ study.storage[i].state = "Completed")
        => LET record == study.storage[i]
           IN  /\ {"x", "y"} \subseteq DOMAIN record.internal_params
               /\ {"x", "y"} \subseteq DOMAIN record.distributions
               /\ record.value =
                     obj_value(
                        IntUniform_to_external_repr(record.distributions["x"],
                                                    record.internal_params["x"]),
                        IntUniform_to_external_repr(record.distributions["y"],
                                                    record.internal_params["y"]))

\* C8: when optimize is over, after a failure in a trial or not, it has
\* created n_trials trials and none of them is Running; the trial in which a
\* failure happened is Failed.
C8_FailureMarksTrialFailed ==
    (objective # "none" /\ pc \in {"done", "panicked"}) =>
        /\ Len(opt.created) = opt.n_trials
        /\ \A i \in 1..Len(opt.created) :
              study.storage[opt.created[i] + 1].state \in Terminal
        /\ ret.res = "panic" => study.storage[ret.id + 1].state = "Failed"

\* The suggest_* calls whose bounds or choices are malformed: low > high for
\* the integer and uniform kinds, a non-positive low for the log-uniform kind,
\* no choice for the categorical kind.
Malformed(call) ==
    CASE call[1] = "suggest_int" -> call[2].low > call[2].high
      [] call[1] = "suggest_uniform" -> call[2].low.num > call[2].high.num
      [] call[1] = "suggest_log" -> call[2].low.num <= 0
      [] call[1] = "suggest_categorical" -> Len(call[2].choices) = 0

\* C11: a suggest_* call with malformed bounds or choices returns the
\* ConfigurationError to its caller, and the store the handle writes to and
\* the study's store are as they were before the call.
C11_MalformedReturnsConfigurationError ==
    [][(/\ ret'.op \in SuggestOps
        /\ Malformed(ret'.call))
       => /\ ret'.res = "ConfigurationError"
          /\ pc' = pc
          /\ trial' = trial
          /\ study' = study]_vars

\* C12: set_trial_param on a Running trial with a name that has an entry
\* returns Ok and leaves the new value and the new distribution under that
\* name, every other name of the trial as it was; a second suggest_* call
\* with the same name on the handle of a Running trial returns Ok and leaves
\* the internal representation of its value and its distribution under that
\* name in the store the handle writes to.
C12_LastWriteWins ==
    [][/\ (/\ ret'.op = "set_trial_param"
            /\ ret'.id < Len(study.storage)
            /\ study.storage[ret'.id + 1].state = "Running"
            /\ ret'.name \in DOMAIN study.storage[ret'.id + 1].internal_params)
          => LET old == study.storage[ret'.id + 1]
                 new == study'.storage[ret'.id + 1]
             IN  /\ ret'.res = "Ok"
                 /\ DOMAIN new.internal_params = DOMAIN old.internal_params
                 /\ DOMAIN new.distributions = DOMAIN old.distributions
                 /\ new.internal_params[ret'.name] = ret'.value
                 /\ new.distributions[ret'.name] = ret'.distribution
                 /\ \A n \in DOMAIN old.internal_params \ {ret'.name} :
                       /\ new.internal_params[n] = old.internal_params[n]
                       /\ new.distributions[n] = old.distributions[n]
       /\ (/\ ret.op \in SuggestOps
            /\ ret'.op \in SuggestOps
            /\ ret'.name = ret.name
            /\ ret'.id < Len(trial[1].study.storage)
            /\ trial[1].study.storage[ret'.id + 1].state = "Running")
          => LET old == trial[1].study.storage[ret'.id + 1]
                 new == trial'[1].study.storage[ret'.id + 1]
             IN  /\ ret'.res = "Ok"
                 /\ new.internal_params[ret'.name] = ToInternal(ret'.call, out'[3])
                 /\ new.distributions[ret'.name] = Dist(ret'.call)
                 /\ \A n \in DOMAIN old.internal_params \ {ret'.name} :
                       /\ new.internal_params[n] = old.internal_params[n]
                       /\ new.distributions[n] = old.distributions[n]]_vars

\* A suggest_uniform call for x has just returned on the handle of Running
\* trial 0, whose record had x under an integer distribution and has y: the
\* handle's record now has x under the uniform distribution, and y as before.
C12_Witness ==
    /\ pc = "handle"
    /\ ret.op = "suggest_uniform"
    /\ ret.name = "x"
    /\ ret.id = 0
    /\ Len(study.storage) = 1
    /\ study.storage[1].state = "Running"
    /\ DOMAIN study.storage[1].internal_params = {"x", "y"}
    /\ study.storage[1].distributions["x"] = IntUni(0, 1)
    /\ study.storage[1].internal_params["x"] = F(1)
    /\ trial[1].study.storage[1].distributions["x"] = Uni(F(0), F(0))
    /\ trial[1].study.storage[1].internal_params["x"] = F(0)
    /\ trial[1].study.storage[1].internal_params["y"] = study.storage[1].internal_params["y"]

ReadOps == {"get_trial", "get_best_trial"}

\* C13: get_trial and get_best_trial leave the store unchanged and return a
\* record equal to one of the store; a write to a field of a returned record
\* changes that record and no record of the store.
C13_ReadsReturnCopies ==
    [][/\ ret'.op \in ReadOps
          => /\ study' = study
             /\ ret'.res \in {"Ok", "Some"}
                => \E i \in 1..Len(study.storage) : out'[3] = study.storage[i]
       /\ ret'.op = "write_returned"
          => /\ study' = study
             /\ out'[3].trial_id = out[3].trial_id]_vars

\* The holder of a copy of the Completed trial 1, got from get_best_trial, has
\* made the copy Running and changed its value; the store's record is still
\* Completed with the value it had.
C13_Witness ==
    /\ ret.op = "write_returned"
    /\ Len(study.storage) = 2
    /\ out[3].trial_id = 1
    /\ out[3].state = "Running"
    /\ out[3].value = F(2)
    /\ study.storage[2].state = "Completed"
    /\ study.storage[2].value = F(1)
    /\ study.storage[1].state = "Running"

\* C14: for a Categorical distribution with at least one choice,
\* to_internal_repr of a label returns the index of the first choice equal to
\* the label, or 0 when no choice is; converting that back returns the label
\* when it is a choice, and the first choice when it is not.
C14_CategoricalFirstOrZero ==
    [][/\ (/\ ret'.op = "to_internal_repr"
            /\ ret'.distribution[1] = "Categorical"
            /\ Len(ret'.distribution[2].choices) > 0)
          => LET choices == ret'.distribution[2].choices
                 label == ret'.arg[2]
                 internal == out'[3][2]
             IN  /\ ret'.res = "Ok"
                 /\ internal.cls = "finite"
                 /\ internal.num \in 0..(Len(choices) - 1)
                 /\ (\E i \in 1..Len(choices) : choices[i] = label)
                    => /\ choices[internal.num + 1] = label
                       /\ \A j \in 1..internal.num : choices[j] # label
                 /\ (\A i \in 1..Len(choices) : choices[i] # label)
                    => internal.num = 0
       /\ (/\ ret'.op = "round_trip"
            /\ ret'.distribution[1] = "Categorical"
            /\ Len(ret'.distribution[2].choices) > 0)
          => LET choices == ret'.distribution[2].choices
                 label == ret'.arg[2]
             IN  /\ ret'.res = "Ok"
                 /\ out'[3][2] = IF \E i \in 1..Len(choices) : choices[i] = label
                                 THEN label ELSE choices[1]]_vars

\* The label c, which is not among the choices b, a, has gone through both
\* conversions and come back as b.
C14_Witness ==
    /\ ret.op = "round_trip"
    /\ ret.distribution = Categorical(<<"b", "a">>)
    /\ ret.arg = <<"Categorical", "c">>
    /\ out = <<"round_trip", "Ok", <<"Categorical", "b">>>>

\* C15: for an IntUniform distribution with low <= high and an integer n of
\* low..high, converting n to the internal representation and back returns n;
\* each conversion of a Uniform or LogUniform distribution returns its
\* argument.
C15_IntRoundTripFloatIdentity ==
    [][/\ (/\ ret'.op = "round_trip"
            /\ ret'.distribution[1] = "IntUni"
            /\ ret'.distribution[2].low <= ret'.arg[2]
            /\ ret'.arg[2] <= ret'.distribution[2].high)
          => /\ ret'.res = "Ok"
             /\ out'[3][2] = ret'.arg[2]
       /\ (/\ ret'.op \in {"to_internal_repr", "to_external_repr", "round_trip"}
            /\ ret'.distribution[1] \in {"Uni", "LogUni"})
          => /\ ret'.res = "Ok"
             /\ out'[3][2] = ret'.arg[2]]_vars

\* C16: a value returned by suggest_int with low <= high is an integer of
\* low..high, and a value returned by suggest_categorical with at least one
\* choice is one of the choices; when the handle's trial is Running, the
\* internal value recorded under the name is the float of that integer,
\* respectively an index into the recorded choices at which the returned
\* label stands.
C16_SuggestedValueInRange ==
    [][/\ (/\ ret'.op = "suggest_int"
            /\ ret'.res = "Ok"
            /\ ret'.call[2].low <= ret'.call[2].high)
          => /\ ret'.call[2].low <= out'[3]
             /\ out'[3] <= ret'.call[2].high
             /\ (/\ ret'.id < Len(trial[1].study.storage)
                 /\ trial[1].study.storage[ret'.id + 1].state = "Running")
                => trial'[1].study.storage[ret'.id + 1].internal_params[ret'.name]
                      = F(out'[3])
       /\ (/\ ret'.op = "suggest_categorical"
            /\ ret'.res = "Ok"
            /\ Len(ret'.call[2].choices) > 0)
          => /\ \E i \in 1..Len(ret'.call[2].choices) :
                   ret'.call[2].choices[i] = out'[3]
             /\ (/\ ret'.id < Len(trial[1].study.storage)
                 /\ trial[1].study.storage[ret'.id + 1].state = "Running")
                => LET record == trial'[1].study.storage[ret'.id + 1]
                       internal == record.internal_params[ret'.name]
                       choices == record.distributions[ret'.name][2].choices
                   IN  /\ internal.cls = "finite"
                       /\ internal.num \in 0..(Len(choices) - 1)
                       /\ choices[internal.num + 1] = out'[3]]_vars

\* C17: after a set_trial_value, set_trial_state or set_trial_param call that
\* returned Ok the store differs from the one before at most in the value,
\* respectively the state, respectively the two maps of the trial with the
\* given id; the two maps have the given value and the given distribution
\* under the given name and are otherwise as before.
C17_SetWritesOnlyItsField ==
    [][/\ (ret'.op \in SetOps /\ ret'.res = "Ok")
          => /\ ret'.id < Len(study.storage)
             /\ Len(study'.storage) = Len(study.storage)
       /\ (ret'.op = "set_trial_value" /\ ret'.res = "Ok")
          => study'.storage =
                [study.storage EXCEPT ![ret'.id + 1].value =
                                          study'.storage[ret'.id + 1].value]
       /\ (ret'.op = "set_trial_state" /\ ret'.res = "Ok")
          => study'.storage =
                [study.storage EXCEPT ![ret'.id + 1].state =
                                          study'.storage[ret'.id + 1].state]
       /\ (ret'.op = "set_trial_param" /\ ret'.res = "Ok")
          => LET old == study.storage[ret'.id + 1]
                 new == study'.storage[ret'.id + 1]
             IN  /\ study'.storage =
                       [study.storage EXCEPT
                           ![ret'.id + 1].internal_params = new.internal_params,
                           ![ret'.id + 1].distributions = new.distributions]
                 /\ DOMAIN new.internal_params =
                       DOMAIN old.internal_params \cup {ret'.name}
                 /\ DOMAIN new.distributions =
                       DOMAIN old.distributions \cup {ret'.name}
                 /\ new.internal_params[ret'.name] = ret'.value
                 /\ new.distributions[ret'.name] = ret'.distribution
                 /\ \A n \in DOMAIN old.internal_params \ {ret'.name} :
                       new.internal_params[n] = old.internal_params[n]
                 /\ \A n \in DOMAIN old.distributions \ {ret'.name} :
                       new.distributions[n] = old.distributions[n]]_vars

\* set_trial_param has just put y on trial 1, which already had a value and
\* the parameter x, next to a Completed trial 0 that has a value and x.
C17_Witness ==
    /\ ret.op = "set_trial_param"
    /\ ret.res = "Ok"
    /\ ret.id = 1
    /\ ret.name = "y"
    /\ Len(study.storage) = 2
    /\ study.storage[1].state = "Completed"
    /\ study.storage[1].value = F(1)
    /\ DOMAIN study.storage[1].internal_params = {"x"}
    /\ study.storage[2].state = "Running"
    /\ study.storage[2].value = F(1)
    /\ DOMAIN study.storage[2].internal_params = {"x", "y"}

\* C18: from the call of optimize on a store with no Running trial: at most
\* one record of the study's store is Running, and it is the last one; at the
\* head of the loop none is, so create_new_trial is only called when none is;
\* every set_trial_* call is on a Running record and returns Ok; a record that
\* is Completed or Failed does not change.
C18_OneRunningTrialAtATime ==
    /\ []((objective # "none" /\ opt.running = {}) =>
             /\ Cardinality(RunningIds) <= 1
             /\ RunningIds \subseteq {Len(study.storage) - 1}
             /\ pc \in {"loop", "done"} => RunningIds = {})
    /\ [][(objective # "none" /\ opt.running = {}) =>
             /\ ret'.op = "create_new_trial" => RunningIds = {}
             /\ ret'.op \in SetOps
                => /\ ret'.id \in RunningIds
                   /\ ret'.res = "Ok"
             /\ \A i \in 1..Len(study.storage) :
                   study.storage[i].state \in Terminal
                      => study'.storage[i] = study.storage[i]]_vars

\* optimize, called on a store of one Failed trial, is in the objective of the
\* second trial it created: that trial is the only Running one.
C18_Witness ==
    /\ pc = "objective"
    /\ opt.k = 1
    /\ opt.running = {}
    /\ study.storage[1].state = "Failed"
    /\ opt.created = <<1, 2>>
    /\ study.storage[2].state = "Completed"
    /\ RunningIds = {2}

\* C19: in every record of the study's store and of the store a handle
\* holds, internal_params and distributions have the same names; params() on
\* a record read from the store does not fail for a missing distribution and
\* gives an external value for every name of the record.
C19_ParamNamesMatch ==
    /\ \A i \in 1..Len(study.storage) :
          DOMAIN study.storage[i].internal_params
             = DOMAIN study.storage[i].distributions
    /\ trial # <<>>
       => \A i \in 1..Len(trial[1].study.storage) :
             DOMAIN trial[1].study.storage[i].internal_params
                = DOMAIN trial[1].study.storage[i].distributions
    /\ ret.op = "params"
       => /\ ret.res = "Ok"
          /\ DOMAIN out[3] = DOMAIN study.storage[ret.id + 1].internal_params

\* params() has returned the map of a record that has x under an integer
\* distribution and y under a uniform one.
C19_Witness ==
    /\ ret.op = "params"
    /\ ret.res = "Ok"
    /\ DOMAIN out[3] = {"x", "y"}
    /\ out[3]["x"] = <<"Int", 1>>
    /\ out[3]["y"] = <<"Float", F(0)>>

====
